---- MODULE Spec2Model ----
(***************************************************************************)
(* Model of the online fusion engine of drone_processor                    *)
(* (src/src/processor.rs) and of its filter (src/src/ekf.rs).              *)
(*                                                                         *)
(* Threads: the fusion thread (egress connect, then the tick loop), one    *)
(* handler thread per accepted ingress connection, and the environment     *)
(* (the clock, the peers of the sockets).                                  *)
(*                                                                         *)
(* Floating point: an f64 is a record [k, v] with k one of "num", "nan",   *)
(* "inf"; results of the filter arithmetic that integer arithmetic cannot  *)
(* represent exactly are kept as expression terms over their operands, so  *)
(* equality of two terms implies equality of the computed values.          *)
(***************************************************************************)
EXTENDS Integers, Sequences, FiniteSets, TLC

(***************************************************************************)
(* Bounds of the model.                                                    *)
(***************************************************************************)
\* number of ingress messages delivered over all connections
MaxMsgs == 3
\* number of egress connect attempts
MaxConnects == 1
\* number of fusion ticks
MaxTicks == 2

(***************************************************************************)
(* Program constants (milliseconds).                                       *)
(***************************************************************************)
read_period == 50
FRESH_MS == 250
CONNECT_ERR_SLEEP_MS == 1000
CONNECTED_SLEEP_MS == 1000

INIT_POS_STDDEV == 800
INIT_VEL_STDDEV == 15
PROCESS_NOISE_STDDEV == 5
MEASUREMENT_STDDEV == 50

(***************************************************************************)
(* f64 values.                                                             *)
(***************************************************************************)
Num(n) == [k |-> "num", v |-> n]
NaN == [k |-> "nan", v |-> 0]
Inf == [k |-> "inf", v |-> 0]

\* f64::is_finite
is_finite(x) == x.k = "num"

\* x > 0.0 (false for NaN)
GtZero(x) == (x.k = "inf") \/ (x.k = "num" /\ x.v > 0)

\* x <= y (false when either is NaN)
LeF(x, y) ==
    /\ x.k # "nan" /\ y.k # "nan"
    /\ \/ y.k = "inf"
       \/ x.k = "num" /\ y.k = "num" /\ x.v <= y.v

None == [some |-> FALSE]
Some(x) == [some |-> TRUE, val |-> x]

(***************************************************************************)
(* Ingress wire format.  A message text is a sequence of atoms; the atom   *)
(* "|" is the delimiter, any other atom is a run of non-delimiter          *)
(* characters.                                                             *)
(***************************************************************************)
\* str::split("|"): the fields between the delimiters (k + 1 fields for k
\* delimiters), each field the sequence of atoms between two delimiters
RECURSIVE SplitFrom(_, _, _)
SplitFrom(text, i, cur) ==
    IF i > Len(text) THEN <<cur>>
    ELSE IF text[i] = "|" THEN <<cur>> \o SplitFrom(text, i + 1, <<>>)
    ELSE SplitFrom(text, i + 1, Append(cur, text[i]))

split(text) == SplitFrom(text, 1, <<>>)

\* the decimal literals of the model and their values
F64Literals == {"0", "100", "120", "140", "200", "300"}

DecimalValue(tok) ==
    CASE tok = "0" -> 0
      [] tok = "100" -> 100
      [] tok = "120" -> 120
      [] tok = "140" -> 140
      [] tok = "200" -> 200
      [] tok = "300" -> 300

\* str::parse::<f64>(): Some(value) or None (Err); a field is one atom or empty
parse_f64(field) ==
    IF Len(field) # 1 THEN None
    ELSE IF field[1] \in F64Literals THEN Some(Num(DecimalValue(field[1])))
    ELSE IF field[1] = "NaN" THEN Some(NaN)
    ELSE IF field[1] = "inf" THEN Some(Inf)
    ELSE None

\* str::parse::<bool>(): only the literal tokens true and false parse
parse_bool(field) ==
    IF Len(field) # 1 THEN None
    ELSE IF field[1] = "true" THEN Some(TRUE)
    ELSE IF field[1] = "false" THEN Some(FALSE)
    ELSE None

\* the tuple of processor.rs:229-236: indexing a missing field panics, and so
\* does unwrap() of a field that does not parse
ParsePanics(fields) ==
    \/ Len(fields) < 6
    \/ ~parse_f64(fields[3]).some
    \/ ~parse_f64(fields[4]).some
    \/ ~parse_bool(fields[5]).some
    \/ ~parse_f64(fields[6]).some

\* the tuple (mac, lat, lon, drone, dist) of processor.rs:229-236, for fields
\* that do not panic; the identity (fields[0]) is one atom in the model
ParsedTuple(fields) ==
    [mac |-> fields[1][1],
     lat |-> parse_f64(fields[3]).val,
     lon |-> parse_f64(fields[4]).val,
     drone |-> parse_bool(fields[5]).val,
     dist |-> parse_f64(fields[6]).val]

\* the Module value of processor.rs:240-249
Module(tuple, t) ==
    [lat |-> tuple.lat, lon |-> tuple.lon, drone |-> tuple.drone,
     dist |-> tuple.dist, updated |-> t]

\* the message texts the peers send
Join6(a, b, c, d, e, f) == <<a, "|", b, "|", c, "|", d, "|", e, "|", f>>

WellFormedTexts ==
    { Join6("A", "ip", "0", "0", "true", "100"),
      Join6("A", "ip", "0", "0", "false", "100"),
      Join6("B", "ip", "0", "200", "false", "120"),
      Join6("C", "ip", "200", "0", "false", "140"),
      Join6("C", "ip", "NaN", "0", "true", "140") }

MalformedTexts ==
    { <<"C", "|", "ip", "|", "200">>,
      Join6("A", "ip", "x", "0", "yes", "100") }

Texts == WellFormedTexts \cup MalformedTexts

\* processor.rs:227-236 for each of these texts: the split, then a panic or
\* the tuple
NoTuple == << >>
ParseOf ==
    [text \in Texts |->
        LET fields == split(text)
        IN IF ParsePanics(fields)
           THEN [panics |-> TRUE, tuple |-> NoTuple]
           ELSE [panics |-> FALSE, tuple |-> ParsedTuple(fields)]]

(***************************************************************************)
(* Filter arithmetic.  A rational is <<numerator, denominator>>.  A vector *)
(* or matrix is a term: a literal ("vec", "diag", "F") or an operation     *)
(* applied to terms.                                                       *)
(***************************************************************************)
RECURSIVE Gcd(_, _)
Gcd(a, b) == IF b = 0 THEN a ELSE Gcd(b, a % b)

Rat(n, d) == LET g == Gcd(n, d) IN IF g = 0 THEN <<0, 1>> ELSE <<n \div g, d \div g>>
RatMul(a, b) == Rat(a[1] * b[1], a[2] * b[2])
RatDivInt(a, n) == Rat(a[1], a[2] * n)
RatPowi2(a) == RatMul(a, a)

\* Vector4::new and Matrix4::from_diagonal
Vector4(a, b, c, d) == [op |-> "vec", v |-> <<a, b, c, d>>]
from_diagonal(d) == [op |-> "diag", d |-> d]

\* the terms
Mul(a, b) == [op |-> "mul", l |-> a, r |-> b]
Add(a, b) == [op |-> "add", l |-> a, r |-> b]
transpose(a) == [op |-> "transpose", of |-> a]

\* the dt of processor.rs:154, 0.05
PREDICT_DT == Rat(1, 20)

\* ekf.rs:33-37: the entry (i, j) of the transition matrix, rows and columns
\* counted from 1
FEntry(dt, i, j) ==
    IF i = j THEN Rat(1, 1)
    ELSE IF j = i + 2 THEN dt
    ELSE Rat(0, 1)

\* the transition matrix as a literal: the matrix of the entries FEntry(dt, i, j)
F(dt) == [op |-> "F", dt |-> dt]

\* ekf.rs:38-42
Q(dt) ==
    LET q_pos == RatPowi2(RatDivInt(RatMul(Rat(PROCESS_NOISE_STDDEV, 1), RatMul(dt, dt)), 2))
        q_vel == RatPowi2(RatMul(Rat(PROCESS_NOISE_STDDEV, 1), dt))
    IN from_diagonal(<<q_pos, q_pos, q_vel, q_vel>>)

\* Ekf::new, ekf.rs:24-45 (F and Q are the operators above)
Ekf_new(x, y, max_dist) ==
    [x_est |-> Vector4(Rat(x, 1), Rat(y, 1), Rat(0, 1), Rat(0, 1)),
     P_est |-> from_diagonal(<<Rat(INIT_POS_STDDEV * INIT_POS_STDDEV, 1),
                               Rat(INIT_POS_STDDEV * INIT_POS_STDDEV, 1),
                               Rat(INIT_VEL_STDDEV * INIT_VEL_STDDEV, 1),
                               Rat(INIT_VEL_STDDEV * INIT_VEL_STDDEV, 1)>>),
     max_dist |-> max_dist]

\* a faulty predict: the second factor is not transposed
predict_without_transpose(self, dt) ==
    <<Mul(F(dt), self.x_est),
      Add(Mul(Mul(F(dt), self.P_est), F(dt)), Q(dt))>>

\* a faulty predict: the covariance is multiplied by F on the left only
predict_left_only(self, dt) ==
    <<Mul(F(dt), self.x_est),
      Add(Mul(F(dt), self.P_est), Q(dt))>>

\* Ekf::predict, ekf.rs:47-51: the pair (x_pred, P_pred); self is not changed
predict(self, dt) ==
    <<Mul(F(dt), self.x_est),
      Add(Mul(Mul(F(dt), self.P_est), transpose(F(dt))), Q(dt))>>

\* the sum of two rationals
RatAdd(a, b) == Rat(a[1] * b[2] + b[1] * a[2], a[2] * b[2])

\* whether the entry (i, j) of a matrix term is a zero of a literal: of the
\* transition matrix, of its transpose or off the diagonal of a diagonal
\* matrix
RECURSIVE LiteralZero(_, _, _)
LiteralZero(m, i, j) ==
    CASE m.op = "diag" -> i # j
      [] m.op = "F" -> FEntry(m.dt, i, j) = Rat(0, 1)
      [] m.op = "transpose" -> LiteralZero(m.of, j, i)
      [] OTHER -> FALSE

\* the entry (i, j) of a 4 x 4 matrix term built from literals by *, + and
\* transpose (nalgebra's Matrix4 arithmetic, ekf.rs:50).  A product with a
\* zero of a literal is zero and its other factor is not evaluated.
RECURSIVE Entry(_, _, _)
RECURSIVE EntryProduct(_, _, _, _, _)
EntryProduct(l, i, k, r, j) ==
    IF LiteralZero(l, i, k) \/ LiteralZero(r, k, j)
    THEN Rat(0, 1)
    ELSE RatMul(Entry(l, i, k), Entry(r, k, j))

Entry(m, i, j) ==
    CASE m.op = "diag" -> IF i = j THEN m.d[i] ELSE Rat(0, 1)
      [] m.op = "F" -> FEntry(m.dt, i, j)
      [] m.op = "transpose" -> Entry(m.of, j, i)
      [] m.op = "add" -> RatAdd(Entry(m.l, i, j), Entry(m.r, i, j))
      [] m.op = "mul" ->
            RatAdd(RatAdd(EntryProduct(m.l, i, 1, m.r, j),
                          EntryProduct(m.l, i, 2, m.r, j)),
                   RatAdd(EntryProduct(m.l, i, 3, m.r, j),
                          EntryProduct(m.l, i, 4, m.r, j)))

\* the entry i of a 4-vector term: a literal, or a matrix term times a vector
\* term
RECURSIVE VecEntry(_, _)
VecEntry(x, i) ==
    CASE x.op = "vec" -> x.v[i]
      [] x.op = "mul" ->
            RatAdd(RatAdd(RatMul(Entry(x.l, i, 1), VecEntry(x.r, 1)),
                          RatMul(Entry(x.l, i, 2), VecEntry(x.r, 2))),
                   RatAdd(RatMul(Entry(x.l, i, 3), VecEntry(x.r, 3)),
                          RatMul(Entry(x.l, i, 4), VecEntry(x.r, 4))))

\* -x of an f64
NegF(x) == IF x.k = "num" THEN Num(0 - x.v) ELSE x

\* a faulty filter: a range equal to the cap is rejected
AdmittedBelowCap(self, s) ==
    GtZero(s.dist) /\ (~self.max_dist.some \/ (LeF(s.dist, self.max_dist.val) /\ s.dist # self.max_dist.val))

\* the filter of ekf.rs:56-58
Admitted(self, s) ==
    GtZero(s.dist) /\ (~self.max_dist.some \/ LeF(s.dist, self.max_dist.val))

\* ekf.rs:54-60
filtered_sensors(self, sensors) ==
    SelectSeq(sensors, LAMBDA s : Admitted(self, s))

\* z of ekf.rs:68
MeasurementZ(filtered) == [i \in 1..Len(filtered) |-> filtered[i].dist]

\* a faulty row: the east and north of the sensor are used as given
SensorXYAsGiven(filtered) ==
    [i \in 1..Len(filtered) |->
        <<filtered[i].enu.east, filtered[i].enu.north>>]

\* (sx, sy) of ekf.rs:75, one pair per row
SensorXY(filtered) ==
    [i \in 1..Len(filtered) |->
        <<NegF(filtered[i].enu.east), NegF(filtered[i].enu.north)>>]

\* the gain step of ekf.rs:68-85 as one term: h_x_pred, H, R, S, S_inv and K
\* are functions of x_pred, P_pred, the stacked z and the (sx, sy) rows
KalmanStep(x_pred, P_pred, filtered) ==
    [op |-> "kalman", x_pred |-> x_pred, P_pred |-> P_pred,
     z |-> MeasurementZ(filtered), sxy |-> SensorXY(filtered),
     r |-> MEASUREMENT_STDDEV * MEASUREMENT_STDDEV]

\* whether x_pred + K * y of ekf.rs:86-87 is finite, for finite x_pred and
\* P_pred: y = z - h_x_pred has a non-finite entry when a stacked range or a
\* sensor position is non-finite, and the product of that entry with an
\* entry of K is infinite or NaN, never finite
KalmanXFinite(step) ==
    \A i \in DOMAIN step.z :
        /\ is_finite(step.z[i])
        /\ is_finite(step.sxy[i][1])
        /\ is_finite(step.sxy[i][2])

\* whether (I - K * H) * P_pred of ekf.rs:88 is finite, for finite x_pred
\* and P_pred: H, S and K are computed from the sensor positions and not
\* from the ranges, and a non-finite position makes dist_pred and its row
\* of H NaN, and with them S, S_inv and K
KalmanPFinite(step) ==
    \A i \in DOMAIN step.sxy :
        /\ is_finite(step.sxy[i][1])
        /\ is_finite(step.sxy[i][2])

\* x_pred + K * y, ekf.rs:86-87
KalmanX(step) == [op |-> "x_pred + K * y", step |-> step]

\* (I - K * H) * P_pred, ekf.rs:88
KalmanP(step) == [op |-> "(I - K * H) * P_pred", step |-> step]

\* a faulty update: the shortfall branch returns without committing the
\* prediction
update_shortfall_keeps_state(self, x_pred, P_pred, sensors, invertible) ==
    LET filtered == filtered_sensors(self, sensors)
    IN IF Len(filtered) < 3
       THEN self
       ELSE IF invertible
            THEN LET step == KalmanStep(x_pred, P_pred, filtered)
                 IN [self EXCEPT !.x_est = KalmanX(step), !.P_est = KalmanP(step)]
            ELSE [self EXCEPT !.x_est = x_pred, !.P_est = P_pred]

\* a faulty update: when the inversion fails the update is skipped without
\* committing the prediction
update_singular_keeps_state(self, x_pred, P_pred, sensors, invertible) ==
    LET filtered == filtered_sensors(self, sensors)
    IN IF Len(filtered) < 3
       THEN [self EXCEPT !.x_est = x_pred, !.P_est = P_pred]
       ELSE IF invertible
            THEN LET step == KalmanStep(x_pred, P_pred, filtered)
                 IN [self EXCEPT !.x_est = KalmanX(step), !.P_est = KalmanP(step)]
            ELSE self

\* Ekf::update, ekf.rs:53-93.  invertible is the outcome of S.try_inverse(),
\* which the terms do not decide.
update(self, x_pred, P_pred, sensors, invertible) ==
    LET filtered == filtered_sensors(self, sensors)
        n_sensors == Len(filtered)
    IN IF n_sensors < 3
       THEN [self EXCEPT !.x_est = x_pred, !.P_est = P_pred]
       ELSE IF invertible
            THEN LET step == KalmanStep(x_pred, P_pred, filtered)
                 IN [self EXCEPT !.x_est = KalmanX(step), !.P_est = KalmanP(step)]
            ELSE [self EXCEPT !.x_est = x_pred, !.P_est = P_pred]

\* which branch of update a call takes
UpdateBranch(self, sensors, invertible) ==
    IF Len(filtered_sensors(self, sensors)) < 3 THEN "shortfall"
    ELSE IF invertible THEN "kalman" ELSE "singular"

(***************************************************************************)
(* Geodetic projector (the geoconv crate), on a flat grid whose unit is    *)
(* one metre: lle_to_enu(r, p) is the offset of p from the reference r,    *)
(* non-finite when an input is.                                            *)
(***************************************************************************)
Lle(lat, lon) == [lat |-> lat, lon |-> lon]

lle_to_enu(r, p) ==
    IF is_finite(r.lat) /\ is_finite(r.lon) /\ is_finite(p.lat) /\ is_finite(p.lon)
    THEN [east |-> Num(p.lon.v - r.lon.v), north |-> Num(p.lat.v - r.lat.v)]
    ELSE [east |-> NaN, north |-> NaN]

\* Enu { east: x_est[0], north: x_est[1], up: 0.0 }, processor.rs:157-161
EnuOf(x_est) == [op |-> "enu", east_north |-> x_est]

\* enu_to_lle(r, enu) for the estimate: a term over the reference and the Enu
enu_to_lle(r, enu) == [op |-> "enu_to_lle", ref |-> r, enu |-> enu]

\* format!("{},{}", lle.longitude, lle.latitude), processor.rs:166
FormatEstimate(lle) == [fmt |-> "{longitude},{latitude}", lle |-> lle]

(***************************************************************************)
(* State.                                                                  *)
(***************************************************************************)
Conns == {"c1", "c2"}

\* the connections are named in the order in which their handlers start
Earlier(h) == IF h = "c2" THEN {"c1"} ELSE {}

VARIABLES
    now,        \* the monotonic clock, ms
    modules,    \* the registry: identity -> Module (the HashMap under the Mutex)
    lock,       \* holder of the registry Mutex: "free", "fusion" or a handler
    ref_lle,    \* Option<Lle> of the fusion thread
    ekf,        \* the filter of the fusion thread
    fpc,        \* position of the fusion thread
    start,      \* Instant at which the current tick started
    wake,       \* instant at which the current sleep of the fusion thread ends
    snapshot,   \* the clone of the registry taken by the current tick
    socket,     \* the outbound stream: [id, alive]; id 0 before the first connect
    sent,       \* the send calls made on outbound streams, in order
    ticks,      \* number of ticks started (processor.rs:85)
    hpc,        \* position of each ingress handler
    htuple,     \* the parsed tuple a handler is about to insert
    conn,       \* each ingress connection: "none", "failed" (the accept failed),
                \* "open" or "reset" (a read returned Err)
    nmsgs,      \* number of ingress messages delivered
    connects,   \* number of egress connect attempts
    upd,        \* the branch and the rows of the latest Ekf::update call
    evicted,    \* the entries the eviction of the current tick removed
    args        \* the inputs of the filter call under SpecEkf; unused under Spec

vars == <<now, modules, lock, ref_lle, ekf, fpc, start, wake, snapshot, socket,
          sent, ticks, hpc, htuple, conn, nmsgs, upd, evicted, connects, args>>

fusion_vars == <<ref_lle, ekf, fpc, start, wake, snapshot, socket, sent, ticks, upd,
                 evicted, connects>>
handler_vars == <<hpc, htuple, conn, nmsgs>>

NoUpdate == [branch |-> "none"]
NoArgs == << >>

Init ==
    /\ now = 0
    /\ modules = << >>
    /\ lock = "free"
    /\ ref_lle = None
    /\ ekf = Ekf_new(0, 0, None)
    /\ fpc = "connect"
    /\ start = 0
    /\ wake = 0
    /\ snapshot = << >>
    /\ socket = [id |-> 0, alive |-> FALSE]
    /\ sent = << >>
    /\ ticks = 0
    /\ hpc = [h \in Conns |-> "idle"]
    /\ htuple = [h \in Conns |-> NoTuple]
    /\ conn = [h \in Conns |-> "none"]
    /\ nmsgs = 0
    /\ connects = 0
    /\ upd = NoUpdate
    /\ evicted = << >>
    /\ args = NoArgs

(***************************************************************************)
(* Ingress: the listener and the per-connection handlers,                  *)
(* processor.rs:197-258.                                                   *)
(***************************************************************************)
\* server.incoming() yields a stream and the spawned handler runs
\* accept(stream.unwrap()).unwrap(): a failed stream or handshake panics the
\* handler thread, not the listener
HAccept(h) ==
    /\ hpc[h] = "idle"
    /\ \A g \in Earlier(h) : hpc[g] # "idle"
    /\ \E ok \in BOOLEAN :
        IF ok
        THEN /\ hpc' = [hpc EXCEPT ![h] = "read"]
             /\ conn' = [conn EXCEPT ![h] = "open"]
        ELSE /\ hpc' = [hpc EXCEPT ![h] = "panicked"]
             /\ conn' = [conn EXCEPT ![h] = "failed"]
    /\ UNCHANGED <<now, modules, lock, htuple, nmsgs>>
    /\ UNCHANGED <<fusion_vars, args>>

\* the position of a handler after it has read a text or binary message:
\* processor.rs:226-238
AfterMessage(parse) == IF parse.panics THEN "panicked" ELSE "insert"

\* websocket.read() returns a text message, processor.rs:220-238.  Reading,
\* splitting and parsing touch only the handler's own connection, so they are
\* one step with the modules.lock() that follows them: a well-formed message
\* leaves the handler holding the guard, which it gets when the Mutex is free
HReadText(h) ==
    /\ hpc[h] = "read"
    /\ conn[h] = "open"
    /\ nmsgs < MaxMsgs
    /\ \E text \in Texts :
        /\ ParseOf[text].panics \/ lock = "free"
        /\ hpc' = [hpc EXCEPT ![h] = AfterMessage(ParseOf[text])]
        /\ htuple' = [htuple EXCEPT ![h] = ParseOf[text].tuple]
        /\ lock' = IF ParseOf[text].panics THEN lock ELSE h
    /\ nmsgs' = nmsgs + 1
    /\ UNCHANGED <<now, modules, conn>>
    /\ UNCHANGED <<fusion_vars, args>>

\* the position of a handler after websocket.read() returned Err:
\* processor.rs:220-222
AfterReadErr == "read"

\* websocket.read() returns Err: the peer has reset the connection, or the
\* connection is already reset
HReadErr(h) ==
    /\ hpc[h] = "read"
    /\ conn[h] \in {"open", "reset"}
    /\ conn' = [conn EXCEPT ![h] = "reset"]
    /\ hpc' = [hpc EXCEPT ![h] = AfterReadErr]
    /\ UNCHANGED <<now, modules, lock, htuple, nmsgs>>
    /\ UNCHANGED <<fusion_vars, args>>

\* a faulty insert: an identity already present keeps its old report
insert_if_absent(map, key, value) ==
    [k \in DOMAIN map \cup {key} |-> IF k \in DOMAIN map THEN map[k] ELSE value]

\* HashMap::insert: the entry of the key is replaced
insert(map, key, value) ==
    [k \in DOMAIN map \cup {key} |-> IF k = key THEN value ELSE map[k]]

\* a faulty insert: the guard is leaked instead of dropped at the end of the
\* statement
HInsertLeaksGuard(h) ==
    /\ hpc[h] = "insert"
    /\ lock = h
    /\ modules' = insert(modules, htuple[h].mac, Module(htuple[h], now))
    /\ lock' = lock
    /\ hpc' = [hpc EXCEPT ![h] = "read"]
    /\ htuple' = [htuple EXCEPT ![h] = NoTuple]
    /\ UNCHANGED <<now, conn, nmsgs>>
    /\ UNCHANGED <<fusion_vars, args>>

\* .insert(mac, Module { .., updated: Instant::now() }), processor.rs:238-250;
\* the guard is dropped at the end of the statement
HInsert(h) ==
    /\ hpc[h] = "insert"
    /\ lock = h
    /\ modules' = insert(modules, htuple[h].mac, Module(htuple[h], now))
    /\ lock' = "free"
    /\ hpc' = [hpc EXCEPT ![h] = "read"]
    /\ htuple' = [htuple EXCEPT ![h] = NoTuple]
    /\ UNCHANGED <<now, conn, nmsgs>>
    /\ UNCHANGED <<fusion_vars, args>>

(***************************************************************************)
(* The fusion thread, processor.rs:44-195.                                 *)
(***************************************************************************)
\* connect(..) of processor.rs:52-59
FConnect ==
    /\ fpc = "connect"
    /\ connects < MaxConnects
    /\ connects' = connects + 1
    /\ \E ok \in BOOLEAN :
        IF ok
        THEN /\ socket' = [id |-> socket.id + 1, alive |-> TRUE]
             /\ wake' = now + CONNECTED_SLEEP_MS
             /\ fpc' = "settle"
        ELSE /\ socket' = socket
             /\ wake' = now + CONNECT_ERR_SLEEP_MS
             /\ fpc' = "backoff"
    /\ UNCHANGED <<now, modules, lock, ref_lle, ekf, start, snapshot,
                   sent, ticks, upd, evicted>>
    /\ UNCHANGED <<handler_vars, args>>

\* The clock is read when a sleep of the fusion thread returns.  A sleep
\* returns at its deadline; a sleep of the tick loop may also return late, so
\* that a report written one tick earlier is then exactly FRESH_MS old.
WakeTimes ==
    IF fpc = "sleep" THEN {wake, wake + (FRESH_MS - read_period)} ELSE {wake}

\* the sleep of processor.rs:56 ends; continue
FBackoffDone ==
    /\ fpc = "backoff"
    /\ now' \in WakeTimes
    /\ fpc' = "connect"
    /\ UNCHANGED <<modules, lock, ref_lle, ekf, start, wake,
                   snapshot, socket, sent, ticks, upd, evicted, connects>>
    /\ UNCHANGED <<handler_vars, args>>

\* the sleep of processor.rs:62 ends; the first tick starts (processor.rs:85)
FSettleDone ==
    /\ fpc = "settle"
    /\ ticks < MaxTicks
    /\ now' \in WakeTimes
    /\ start' = now'
    /\ ticks' = ticks + 1
    /\ fpc' = "lock"
    /\ UNCHANGED <<modules, lock, ref_lle, ekf, wake, snapshot,
                   socket, sent, upd, evicted, connects>>
    /\ UNCHANGED <<handler_vars, args>>

\* modules.lock() of processor.rs:87
FLock ==
    /\ fpc = "lock"
    /\ lock = "free"
    /\ lock' = "fusion"
    /\ fpc' = "evict"
    /\ UNCHANGED <<now, modules, ref_lle, ekf, start, wake, snapshot,
                   socket, sent, ticks, upd, evicted, connects>>
    /\ UNCHANGED <<handler_vars, args>>

\* a faulty reference step: the reference is taken anew on every tick
RefInitEveryTick(ref, map) ==
    IF DOMAIN map # {}
    THEN {Some(Lle(map[m].lat, map[m].lon)) : m \in DOMAIN map}
    ELSE {ref}

\* a faulty reference step: the reference is taken only while some report
\* carries a detection
RefInitOnDetection(ref, map) ==
    IF ~ref.some /\ (\E m \in DOMAIN map : map[m].drone)
    THEN {Some(Lle(map[m].lat, map[m].lon)) : m \in DOMAIN map}
    ELSE {ref}

\* processor.rs:88-97: the values ref_lle may take; lock.values().next() is
\* any entry of the map
RefInit(ref, map) ==
    IF ~ref.some /\ DOMAIN map # {}
    THEN {Some(Lle(map[m].lat, map[m].lon)) : m \in DOMAIN map}
    ELSE {ref}

\* a faulty retain predicate: a report of age FRESH_MS is kept
RetainedInclusive(m, t) ==
    /\ t - m.updated <= FRESH_MS
    /\ is_finite(m.lon)
    /\ is_finite(m.lat)

\* the predicate of retain, processor.rs:99-103
Retained(m, t) ==
    /\ t - m.updated < FRESH_MS
    /\ is_finite(m.lon)
    /\ is_finite(m.lat)

\* HashMap::retain with that predicate
retain(map, t) ==
    [k \in {j \in DOMAIN map : Retained(map[j], t)} |-> map[k]]

\* a faulty tick: the guard is not dropped after the clone and lives on into
\* the rest of the iteration
FEvictHoldsLock ==
    /\ fpc = "evict"
    /\ lock = "fusion"
    /\ ref_lle' \in RefInit(ref_lle, modules)
    /\ modules' = retain(modules, now)
    /\ snapshot' = modules'
    /\ evicted' = [k \in DOMAIN modules \ DOMAIN modules' |-> modules[k]]
    /\ lock' = lock
    /\ fpc' = "gate"
    /\ UNCHANGED <<now, ekf, start, wake, socket, sent, ticks, upd,
                   connects>>
    /\ UNCHANGED <<handler_vars, args>>

\* processor.rs:88-105: reference, eviction, clone, drop(lock)
FEvict ==
    /\ fpc = "evict"
    /\ lock = "fusion"
    /\ ref_lle' \in RefInit(ref_lle, modules)
    /\ modules' = retain(modules, now)
    /\ snapshot' = modules'
    /\ evicted' = [k \in DOMAIN modules \ DOMAIN modules' |-> modules[k]]
    /\ lock' = "free"
    /\ fpc' = "gate"
    /\ UNCHANGED <<now, ekf, start, wake, socket, sent, ticks, upd,
                   connects>>
    /\ UNCHANGED <<handler_vars, args>>

\* a faulty detection: any report counts
DetectionOfAnyReport(snap) == \E m \in DOMAIN snap : TRUE

\* processor.rs:107
Detection(snap) == \E m \in DOMAIN snap : snap[m].drone

\* a faulty size gate: two entries are enough
EnoughModulesTwo(snap) == ~(Cardinality(DOMAIN snap) < 2)

\* processor.rs:135: the else branch is taken
EnoughModules(snap) == ~(Cardinality(DOMAIN snap) < 3)

\* the order in which modules.values() yields the entries of a map with the
\* given keys: one fixed order per key set (the stacked rows of the update are
\* permuted alike by any other order)
RECURSIVE IterOrder(_)
IterOrder(keys) ==
    IF keys = {} THEN << >>
    ELSE LET k == CHOOSE x \in keys : TRUE
         IN <<k>> \o IterOrder(keys \ {k})

\* processor.rs:138-152
Sensors(snap, order, ref) ==
    [i \in DOMAIN order |->
        [enu |-> lle_to_enu(Lle(snap[order[i]].lat, snap[order[i]].lon), ref),
         dist |-> snap[order[i]].dist]]

\* a faulty subtraction: the difference is not held at zero
plain_sub(a, b) == a - b

\* Duration::saturating_sub
saturating_sub(a, b) == IF a > b THEN a - b ELSE 0

\* the record of one Ekf::update call: the branch taken, the sensors that
\* passed the filter and the stacked measurements
UpdateCall(self, sensors, invertible) ==
    [branch |-> UpdateBranch(self, sensors, invertible),
     rows |-> filtered_sensors(self, sensors),
     z |-> MeasurementZ(filtered_sensors(self, sensors))]

\* the outcomes of socket.send(..): Ok, or Err when the peer has gone away or
\* the stream has already failed
SendOutcomes(sock) == IF sock.alive THEN BOOLEAN ELSE {FALSE}

\* a faulty send: an estimate whose send failed is kept and sent again
\* before the next one
SendWithRetry(text, ok) ==
    LET retried == IF sent # << >> /\ ~sent[Len(sent)].ok
                   THEN Append(sent, [sent[Len(sent)] EXCEPT !.tick = ticks, !.sock = socket.id])
                   ELSE sent
    IN Append(retried, [tick |-> ticks, sock |-> socket.id, ok |-> ok, text |-> text])

\* socket.send(..) of processor.rs:165-168; the Result is discarded
Send(text, ok) ==
    Append(sent, [tick |-> ticks, sock |-> socket.id, ok |-> ok, text |-> text])

\* processor.rs:138-168
FEstimate ==
    \E invertible \in BOOLEAN, ok \in SendOutcomes(socket) :
        LET sensors == Sensors(snapshot, IterOrder(DOMAIN snapshot), ref_lle.val)
            pred == predict(ekf, PREDICT_DT)
            next_ekf == update(ekf, pred[1], pred[2], sensors, invertible)
            lle == enu_to_lle(ref_lle.val, EnuOf(next_ekf.x_est))
        IN /\ ekf' = next_ekf
           /\ upd' = UpdateCall(ekf, sensors, invertible)
           /\ sent' = Send(FormatEstimate(lle), ok)
           /\ socket' = [socket EXCEPT !.alive = ok]

\* a faulty tick: a tick that is skipped at the gate still commits the
\* prediction to the filter
FGateSkipCommitsPrediction ==
    /\ fpc = "gate"
    /\ IF Detection(snapshot) /\ EnoughModules(snapshot)
       THEN IF ref_lle.some
            THEN /\ FEstimate
                 /\ fpc' = "sleep"
            ELSE /\ fpc' = "panicked"
                 /\ UNCHANGED <<ekf, upd, sent, socket>>
       ELSE /\ fpc' = "sleep"
            /\ ekf' = [ekf EXCEPT !.x_est = predict(ekf, PREDICT_DT)[1],
                                  !.P_est = predict(ekf, PREDICT_DT)[2]]
            /\ UNCHANGED <<upd, sent, socket>>
    /\ wake' = now + saturating_sub(read_period, now - start)
    /\ snapshot' = << >>
    /\ evicted' = << >>
    /\ UNCHANGED <<now, modules, lock, ref_lle, start, ticks, connects>>
    /\ UNCHANGED <<handler_vars, args>>

\* processor.rs:107-191: gating, the estimate, and the start of the sleep; the
\* clone goes out of scope at the end of the iteration
FGate ==
    /\ fpc = "gate"
    /\ IF Detection(snapshot) /\ EnoughModules(snapshot)
       THEN IF ref_lle.some
            THEN /\ FEstimate
                 /\ fpc' = "sleep"
            ELSE /\ fpc' = "panicked"
                 /\ UNCHANGED <<ekf, upd, sent, socket>>
       ELSE /\ fpc' = "sleep"
            /\ UNCHANGED <<ekf, upd, sent, socket>>
    /\ wake' = now + saturating_sub(read_period, now - start)
    /\ snapshot' = << >>
    /\ evicted' = << >>
    /\ UNCHANGED <<now, modules, lock, ref_lle, start, ticks, connects>>
    /\ UNCHANGED <<handler_vars, args>>

\* the sleep of processor.rs:191 ends and the next tick starts (processor.rs:85)
FWake ==
    /\ fpc = "sleep"
    /\ ticks < MaxTicks
    /\ now' \in WakeTimes
    /\ start' = now'
    /\ ticks' = ticks + 1
    /\ fpc' = "lock"
    /\ UNCHANGED <<modules, lock, ref_lle, ekf, wake, snapshot, socket, sent,
                   upd, evicted, connects>>
    /\ UNCHANGED <<handler_vars, args>>

Next ==
    \/ \E h \in Conns : HAccept(h)
    \/ \E h \in Conns : HReadText(h)
    \/ \E h \in Conns : HReadErr(h)
    \/ \E h \in Conns : HInsert(h)
    \/ FConnect
    \/ FBackoffDone
    \/ FSettleDone
    \/ FLock
    \/ FEvict
    \/ FGate
    \/ FWake

Spec == Init /\ [][Next]_vars

(***************************************************************************)
(* The cadence of the fusion thread alone, processor.rs:50-62, 84-85 and   *)
(* 191: the registry stays empty, and the work of a tick between its start *)
(* and its sleep takes time.                                               *)
(***************************************************************************)
\* the time a tick's work may take, ms: less than, exactly and more than
\* read_period
WorkMs == {0, 10, 20, 40, 50, 60, 70, 120}

\* processor.rs:87-189: lock, eviction, clone and gating of a tick, taking
\* some time
CWork ==
    /\ fpc = "lock"
    /\ \E d \in WorkMs : now' = now + d
    /\ fpc' = "gate"
    /\ UNCHANGED <<modules, lock, ref_lle, ekf, start, wake, snapshot, socket,
                   sent, ticks, upd, evicted, connects>>
    /\ UNCHANGED <<handler_vars, args>>

\* sleep(read_period.saturating_sub(start.elapsed())), processor.rs:191
CSleep ==
    /\ fpc = "gate"
    /\ wake' = now + saturating_sub(read_period, now - start)
    /\ fpc' = "sleep"
    /\ UNCHANGED <<now, modules, lock, ref_lle, ekf, start, snapshot, socket,
                   sent, ticks, upd, evicted, connects>>
    /\ UNCHANGED <<handler_vars, args>>

NextCadence ==
    \/ FConnect
    \/ FBackoffDone
    \/ FSettleDone
    \/ CWork
    \/ CSleep
    \/ FWake

SpecCadence == Init /\ [][NextCadence]_vars

(***************************************************************************)
(* The filter alone: one Ekf::update call, after an optional Ekf::predict, *)
(* on drawn inputs.  The fusion thread and the handlers do not move.       *)
(***************************************************************************)
\* number of sensors passed to one call
MaxSensors == 4

\* the ranges a sensor may report
Ranges == {Num(-100), Num(0), Num(100), Num(120), Num(140), Num(150), Num(300), NaN, Inf}

\* the caps a filter may be built with: Ekf::new(.., None) and (.., Some(150.0))
MaxDists == {None, Some(Num(150))}

\* the ENU position of the i-th sensor of a call
SensorAt(i) == [east |-> Num(100 * i), north |-> Num(50 * i * i)]

\* the sensors of a call, from the ranges they report
SensorList(ranges) == [i \in DOMAIN ranges |-> [enu |-> SensorAt(i), dist |-> ranges[i]]]

\* the sensors of a call made while the reference is not finite: every
\* lle_to_enu(.., ref_lle) of processor.rs:146-149 is then non-finite
SensorListOffNaN(ranges) ==
    [i \in DOMAIN ranges |-> [enu |-> [east |-> NaN, north |-> NaN], dist |-> ranges[i]]]

\* a prediction that is not the output of predict
DrawnXPred == Vector4(Rat(10, 1), Rat(20, 1), Rat(1, 1), Rat(0, 1))
DrawnPPred == from_diagonal(<<Rat(4, 1), Rat(4, 1), Rat(1, 1), Rat(1, 1)>>)

InitEkf ==
    /\ \E md \in MaxDists, n \in 0..MaxSensors, ref_finite \in BOOLEAN :
        \E ranges \in [1..n -> Ranges] :
            args = [max_dist |-> md, x_pred |-> DrawnXPred, P_pred |-> DrawnPPred,
                    predicted |-> FALSE,
                    sensors |-> IF ref_finite THEN SensorList(ranges)
                                ELSE SensorListOffNaN(ranges)]
    /\ ekf = Ekf_new(0, 0, args.max_dist)
    /\ upd = NoUpdate
    /\ now = 0
    /\ modules = << >>
    /\ lock = "free"
    /\ ref_lle = None
    /\ fpc = "connect"
    /\ start = 0
    /\ wake = 0
    /\ snapshot = << >>
    /\ socket = [id |-> 0, alive |-> FALSE]
    /\ sent = << >>
    /\ ticks = 0
    /\ hpc = [h \in Conns |-> "idle"]
    /\ htuple = [h \in Conns |-> NoTuple]
    /\ conn = [h \in Conns |-> "none"]
    /\ nmsgs = 0
    /\ connects = 0
    /\ evicted = << >>

\* a faulty predict: the prediction is also stored in the filter
EkfPredictCommits ==
    /\ upd.branch = "none"
    /\ LET pred == predict(ekf, PREDICT_DT)
       IN /\ args' = [args EXCEPT !.x_pred = pred[1], !.P_pred = pred[2],
                                  !.predicted = TRUE]
          /\ ekf' = [ekf EXCEPT !.x_est = pred[1], !.P_est = pred[2]]
    /\ UNCHANGED <<upd, now, modules, lock, ref_lle, fpc, start, wake, snapshot,
                   socket, sent, ticks, evicted, connects>>
    /\ UNCHANGED handler_vars

\* let (x_pred, P_pred) = ekf.predict(0.05), as at processor.rs:154; predict
\* takes &self and may be called again before the update
EkfPredict ==
    /\ upd.branch = "none"
    /\ LET pred == predict(ekf, PREDICT_DT)
       IN args' = [args EXCEPT !.x_pred = pred[1], !.P_pred = pred[2],
                               !.predicted = TRUE]
    /\ UNCHANGED <<ekf, upd, now, modules, lock, ref_lle, fpc, start, wake, snapshot,
                   socket, sent, ticks, evicted, connects>>
    /\ UNCHANGED handler_vars

\* ekf.update(x_pred, P_pred, &sensors), as at processor.rs:155
EkfUpdate ==
    /\ upd.branch = "none"
    /\ \E invertible \in BOOLEAN :
        /\ ekf' = update(ekf, args.x_pred, args.P_pred, args.sensors, invertible)
        /\ upd' = UpdateCall(ekf, args.sensors, invertible)
    /\ UNCHANGED <<args, now, modules, lock, ref_lle, fpc, start, wake, snapshot,
                   socket, sent, ticks, evicted, connects>>
    /\ UNCHANGED handler_vars

NextEkf ==
    \/ EkfPredict
    \/ EkfUpdate

SpecEkf == InitEkf /\ [][NextEkf]_vars

(***************************************************************************)
(* Ekf::predict on the filters that predict-only cycles produce: a cycle   *)
(* is predict(0.05) and an update with only two sensors; then one          *)
(* predict(dt) call with a drawn dt.                                       *)
(***************************************************************************)
MaxCycles == 2

\* the dt of a predict call, all positive
Dts == {Rat(1, 20), Rat(1, 10), Rat(1, 4), Rat(1, 2), Rat(1, 1), Rat(2, 1)}

NoResult == [op |-> "none"]

\* the positions a filter may be built at: Ekf::new(0.0, 0.0, ..) of
\* processor.rs:49 and one away from the origin
InitPositions == {<<0, 0>>, <<100, -50>>}

\* the two sensors of a predict-only cycle: fewer than update needs
TwoSensors == SensorList(<<Num(100), Num(120)>>)

InitPredict ==
    /\ \E md \in MaxDists, xy \in InitPositions, dt \in Dts :
        args = [max_dist |-> md, xy |-> xy, dt |-> dt, cycles |-> 0,
                x_pred |-> NoResult, P_pred |-> NoResult]
    /\ ekf = Ekf_new(args.xy[1], args.xy[2], args.max_dist)
    /\ upd = NoUpdate
    /\ now = 0
    /\ modules = << >>
    /\ lock = "free"
    /\ ref_lle = None
    /\ fpc = "connect"
    /\ start = 0
    /\ wake = 0
    /\ snapshot = << >>
    /\ socket = [id |-> 0, alive |-> FALSE]
    /\ sent = << >>
    /\ ticks = 0
    /\ hpc = [h \in Conns |-> "idle"]
    /\ htuple = [h \in Conns |-> NoTuple]
    /\ conn = [h \in Conns |-> "none"]
    /\ nmsgs = 0
    /\ connects = 0
    /\ evicted = << >>

\* processor.rs:154-155 with two sensors: the prediction is committed
PredictOnlyCycle ==
    /\ args.cycles < MaxCycles
    /\ args.P_pred = NoResult
    /\ LET pred == predict(ekf, PREDICT_DT)
       IN ekf' = update(ekf, pred[1], pred[2], TwoSensors, TRUE)
    /\ upd' = UpdateCall(ekf, TwoSensors, TRUE)
    /\ args' = [args EXCEPT !.cycles = @ + 1]
    /\ UNCHANGED <<now, modules, lock, ref_lle, fpc, start, wake, snapshot,
                   socket, sent, ticks, evicted, connects>>
    /\ UNCHANGED handler_vars

\* ekf.predict(dt)
PredictCall ==
    /\ args.P_pred = NoResult
    /\ LET pred == predict(ekf, args.dt)
       IN args' = [args EXCEPT !.x_pred = pred[1], !.P_pred = pred[2]]
    /\ UNCHANGED <<ekf, upd, now, modules, lock, ref_lle, fpc, start, wake, snapshot,
                   socket, sent, ticks, evicted, connects>>
    /\ UNCHANGED handler_vars

NextPredict ==
    \/ PredictOnlyCycle
    \/ PredictCall

SpecPredict == InitPredict /\ [][NextPredict]_vars

(***************************************************************************)
(* The measurement rows of one Ekf::update call, ekf.rs:72-80, evaluated   *)
(* on an integer grid.  A range is carried by its square, so that the      *)
(* range from (0,0) to (100,100) is the integer 20000 and the innovation   *)
(* z - h is zero exactly when the two squares agree.                       *)
(***************************************************************************)
GridCoords == {-100, 0, 100}

\* the sensor layouts of a call: ENU positions in metres
Layouts ==
    { << <<0, 0>>, <<200, 0>>, <<0, 200>> >>,
      << <<0, 0>>, <<100, 0>>, <<0, 100>> >>,
      << <<-100, -100>>, <<100, -100>>, <<0, 200>> >> }

\* the square of the distance between two points of the grid
RangeSq(ax, ay, bx, by) == (ax - bx) * (ax - bx) + (ay - by) * (ay - by)

\* one pass of the loop of ekf.rs:74-80 for a sensor with finite position:
\* (sx, sy) is the negated east and north of the sensor; dist_pred is the
\* root of dist_pred_sq, raised to 1e-6 when that is 0 (clamped); hx and hy
\* are the numerators of H[(i, 0)] and H[(i, 1)], both over dist_pred
MeasurementRow(px, py, sensor) ==
    LET sx == NegF(sensor.enu.east).v
        sy == NegF(sensor.enu.north).v
    IN [dist_pred_sq |-> RangeSq(px, py, sx, sy),
        clamped |-> RangeSq(px, py, sx, sy) = 0,
        hx |-> px - sx,
        hy |-> py - sy]

\* three sensors of a layout, each reporting its true range to the target,
\* which is positive (the filter of ekf.rs:56-58 has admitted them)
InitMeas ==
    /\ \E px \in GridCoords, py \in GridCoords, tx \in GridCoords, ty \in GridCoords,
          layout \in Layouts :
        /\ \A i \in 1..3 : RangeSq(tx, ty, layout[i][1], layout[i][2]) > 0
        /\ args = [px |-> px, py |-> py, target |-> <<tx, ty>>,
                sensors |-> [i \in 1..3 |->
                    [enu |-> [east |-> Num(layout[i][1]), north |-> Num(layout[i][2])],
                     dist_sq |-> RangeSq(tx, ty, layout[i][1], layout[i][2])]]]
    /\ ekf = Ekf_new(0, 0, None)
    /\ upd = NoUpdate
    /\ now = 0
    /\ modules = << >>
    /\ lock = "free"
    /\ ref_lle = None
    /\ fpc = "connect"
    /\ start = 0
    /\ wake = 0
    /\ snapshot = << >>
    /\ socket = [id |-> 0, alive |-> FALSE]
    /\ sent = << >>
    /\ ticks = 0
    /\ hpc = [h \in Conns |-> "idle"]
    /\ htuple = [h \in Conns |-> NoTuple]
    /\ conn = [h \in Conns |-> "none"]
    /\ nmsgs = 0
    /\ connects = 0
    /\ evicted = << >>

\* the loop of ekf.rs:74-80 over the sensors of the call
MeasRows ==
    /\ upd.branch = "none"
    /\ upd' = [branch |-> "rows",
               rows |-> [i \in DOMAIN args.sensors |->
                            MeasurementRow(args.px, args.py, args.sensors[i])]]
    /\ UNCHANGED <<args, ekf, now, modules, lock, ref_lle, fpc, start, wake,
                   snapshot, socket, sent, ticks, evicted, connects>>
    /\ UNCHANGED handler_vars

NextMeas == MeasRows

SpecMeas == InitMeas /\ [][NextMeas]_vars

(***************************************************************************)
(* The registry Mutex with the handler's modules.lock() as a step of its   *)
(* own, so that a handler can be seen waiting for the guard:               *)
(* processor.rs:87-105 and 216-250, main.rs:377-409.                       *)
(***************************************************************************)
\* the message texts of the peers: one that parses and one that does not;
\* the Mutex protocol does not depend on the report a message carries
LockTexts ==
    { Join6("A", "ip", "0", "0", "true", "100"),
      Join6("A", "ip", "x", "0", "yes", "100") }

\* the position of a handler whose message has parsed: the call of
\* modules.lock(), processor.rs:238
AfterParse(parse) == IF parse.panics THEN "panicked" ELSE "lock"

\* websocket.read() returns a text message; to_text, split and the parses of
\* processor.rs:226-236 run before modules.lock() is called
HParse(h) ==
    /\ hpc[h] = "read"
    /\ conn[h] = "open"
    /\ nmsgs < MaxMsgs
    /\ \E text \in LockTexts :
        /\ hpc' = [hpc EXCEPT ![h] = AfterParse(ParseOf[text])]
        /\ htuple' = [htuple EXCEPT ![h] = ParseOf[text].tuple]
    /\ nmsgs' = nmsgs + 1
    /\ UNCHANGED <<now, modules, lock, conn>>
    /\ UNCHANGED <<fusion_vars, args>>

\* modules.lock() of processor.rs:238 returns the guard
HLock(h) ==
    /\ hpc[h] = "lock"
    /\ lock = "free"
    /\ lock' = h
    /\ hpc' = [hpc EXCEPT ![h] = "insert"]
    /\ UNCHANGED <<now, modules, htuple, conn, nmsgs>>
    /\ UNCHANGED <<fusion_vars, args>>

\* main.rs:381: the offline listener unwraps the read, so a read error
\* panics the handler thread
HReadPanic(h) ==
    /\ hpc[h] = "read"
    /\ conn[h] = "open"
    /\ conn' = [conn EXCEPT ![h] = "reset"]
    /\ hpc' = [hpc EXCEPT ![h] = "panicked"]
    /\ UNCHANGED <<now, modules, lock, htuple, nmsgs>>
    /\ UNCHANGED <<fusion_vars, args>>

NextLock ==
    \/ \E h \in Conns : HAccept(h)
    \/ \E h \in Conns : HParse(h)
    \/ \E h \in Conns : HReadErr(h)
    \/ \E h \in Conns : HReadPanic(h)
    \/ \E h \in Conns : HLock(h)
    \/ \E h \in Conns : HInsert(h)
    \/ FConnect
    \/ FBackoffDone
    \/ FSettleDone
    \/ FLock
    \/ FEvict
    \/ FGate
    \/ FWake

\* Scheduling: a thread that holds the guard is runnable and the operating
\* system runs it (weak fairness of the steps that release the guard); the
\* parking_lot Mutex hands the guard over to a waiting thread eventually
\* (strong fairness of the acquisitions)
SpecLock ==
    /\ Init
    /\ [][NextLock]_vars
    /\ WF_vars(FEvict)
    /\ SF_vars(FLock)
    /\ \A h \in Conns : WF_vars(HInsert(h)) /\ SF_vars(HLock(h))

(***************************************************************************)
(* The motion clamp of the trilateration loop, main.rs:271-288, with the   *)
(* Point helpers of main.rs:40-88.  Coordinates are whole metres and a     *)
(* time difference is a number of tenths of a second.  A length (the value *)
(* of an f64 sqrt) is kept as its square: Root(n) is the non-negative root *)
(* of n, so that lengths compare exactly.                                  *)
(***************************************************************************)
\* main.rs:274, metres per second
MAX_SPEED == 30
\* main.rs:276: the clamp applies up to 1.0 s, in tenths of a second
CLAMP_WINDOW == 10
TenthsPerSecond == 10

Point(x, y, z) == [x |-> x, y |-> y, z |-> z]
Root(n) == [sq |-> n]

\* the values of a computed point: the coordinates of a Point; the point at
\* distance len from `from' in the direction d; or NaN coordinates
Exact(p) == [k |-> "point", p |-> p]
OnRay(from, d, len) == [k |-> "ray", from |-> from, d |-> d, len |-> len]
NaNPoint == [k |-> "nan"]

\* Point::dist, main.rs:42-45
Point_dist(self, other) ==
    Root((self.x - other.x) * (self.x - other.x)
         + (self.y - other.y) * (self.y - other.y)
         + (self.z - other.z) * (self.z - other.z))

\* Point::diff, main.rs:48-54: other - self
Point_diff(self, other) ==
    Point(other.x - self.x, other.y - self.y, other.z - self.z)

\* Point::magnitude, main.rs:57-59
Point_magnitude(self) ==
    Root(self.x * self.x + self.y * self.y + self.z * self.z)

\* Point::norm, main.rs:62-69: each coordinate over the magnitude; 0.0 / 0.0
\* is NaN
Point_norm(self) ==
    IF Point_magnitude(self).sq = 0
    THEN NaNPoint
    ELSE [k |-> "dir", d |-> self]

\* Point::scale, main.rs:81-87, of a direction
Point_scale(dir, len) ==
    IF dir.k = "nan" THEN NaNPoint
    ELSE [k |-> "scaled", d |-> dir.d, len |-> len]

\* Point::add, main.rs:72-78, of a point and a scaled direction
Point_add(self, v) ==
    IF v.k = "nan" THEN NaNPoint ELSE OnRay(self, v.d, v.len)

\* f64::max of two lengths
f64_max(a, b) == IF a.sq >= b.sq THEN a ELSE b

\* main.rs:274: 30.0 * time_diff
max_dist(time_diff) ==
    Root(((MAX_SPEED * time_diff) \div TenthsPerSecond)
         * ((MAX_SPEED * time_diff) \div TenthsPerSecond))

\* main.rs:271-286: the point the loop emits for the raw solution new_point
ClampedPoint(prev, new_point, time_diff) ==
    IF prev.some
    THEN IF time_diff > CLAMP_WINDOW
         THEN Exact(new_point)
         ELSE LET dir == Point_norm(Point_diff(prev.val, new_point))
                  dist == f64_max(Point_dist(prev.val, new_point),
                                  max_dist(time_diff))
              IN Point_add(prev.val, Point_scale(dir, dist))
    ELSE Exact(new_point)

\* the previous points, the raw solutions and the time differences drawn
PrevPoints == {Point(100, 100, 0), Point(0, 0, 0), Point(30, 40, 0)}
RawPoints ==
    {Point(10, 10, 0), Point(100, 100, 0), Point(0, 0, 0), Point(100, 110, 0),
     Point(130, 140, 0), Point(30, 40, 120)}
TimeDiffs == {0, 5, 10, 11, 20}

InitClamp ==
    /\ \E new_point \in RawPoints :
        \/ args = [prev |-> None, new_point |-> new_point, time_diff |-> 0,
                   emitted |-> NoResult]
        \/ \E prev_point \in PrevPoints, time_diff \in TimeDiffs :
            args = [prev |-> Some(prev_point), new_point |-> new_point,
                    time_diff |-> time_diff, emitted |-> NoResult]
    /\ ekf = Ekf_new(0, 0, None)
    /\ upd = NoUpdate
    /\ now = 0
    /\ modules = << >>
    /\ lock = "free"
    /\ ref_lle = None
    /\ fpc = "connect"
    /\ start = 0
    /\ wake = 0
    /\ snapshot = << >>
    /\ socket = [id |-> 0, alive |-> FALSE]
    /\ sent = << >>
    /\ ticks = 0
    /\ hpc = [h \in Conns |-> "idle"]
    /\ htuple = [h \in Conns |-> NoTuple]
    /\ conn = [h \in Conns |-> "none"]
    /\ nmsgs = 0
    /\ connects = 0
    /\ evicted = << >>

\* main.rs:271-286 for the drawn inputs
ClampStep ==
    /\ args.emitted = NoResult
    /\ args' = [args EXCEPT !.emitted =
                    ClampedPoint(args.prev, args.new_point, args.time_diff)]
    /\ UNCHANGED <<ekf, upd, now, modules, lock, ref_lle, fpc, start, wake,
                   snapshot, socket, sent, ticks, evicted, connects>>
    /\ UNCHANGED handler_vars

NextClamp == ClampStep

SpecClamp == InitClamp /\ [][NextClamp]_vars

(***************************************************************************)
(* Properties.                                                             *)
(***************************************************************************)
\* a report is fresh at instant t: younger than 250 ms, lat and lon finite
IsFresh(m, t) == t - m.updated < 250 /\ m.lat.k = "num" /\ m.lon.k = "num"

\* the step in which the fusion thread evicts and clones
EvictStep == fpc = "evict" /\ fpc' = "gate"

\* the step in which the fusion thread gates and, past the gate, estimates
GateStep == fpc = "gate" /\ fpc' # "gate"

\* C1: the eviction step leaves in the registry, and in the snapshot cloned
\* from it, exactly the previously present reports that are fresh, each
\* unchanged: every report of age >= 250 ms or with a non-finite lat or lon is
\* gone, and no fresh report is removed.
C1_EvictionKeepsExactlyFresh ==
    [][EvictStep =>
        /\ DOMAIN modules' = {k \in DOMAIN modules : IsFresh(modules[k], now)}
        /\ \A k \in DOMAIN modules' : modules'[k] = modules[k]
        /\ snapshot' = modules']_vars

\* an eviction has removed a finite report that was exactly 250 ms old and
\* has kept another report
C1_Witness ==
    /\ fpc = "gate"
    /\ DOMAIN snapshot # {}
    /\ \E k \in DOMAIN evicted :
        now - evicted[k].updated = 250 /\ is_finite(evicted[k].lat) /\ is_finite(evicted[k].lon)

\* C2: the reference is write-once: once ref_lle is set, no step changes it.
C2_RefWriteOnce == [][ref_lle.some => ref_lle' = ref_lle]_vars

\* the reference is set and a tick is about to run the reference step on a
\* registry none of whose entries is at the reference
C2_Witness ==
    /\ fpc = "evict"
    /\ ref_lle.some
    /\ DOMAIN modules # {}
    /\ \A k \in DOMAIN modules : Lle(modules[k].lat, modules[k].lon) # ref_lle.val

\* C3: when a tick sets the reference, the lat/lon it takes is that of a
\* report in the tick's post-eviction snapshot (a fresh report with finite
\* lat and lon).
C3_RefFromSnapshot ==
    [][(~ref_lle.some /\ ref_lle'.some) =>
        \E k \in DOMAIN snapshot' :
            /\ Lle(snapshot'[k].lat, snapshot'[k].lon) = ref_lle'.val
            /\ IsFresh(snapshot'[k], now)]_vars

\* a range is admissible under a cap: strictly positive and, with a cap, at
\* most the cap
Admissible(range, cap) ==
    /\ range.k \in {"num", "inf"}
    /\ range.k = "num" => range.v > 0
    /\ cap.some => (range.k = "num" /\ range.v <= cap.val.v)

AdmissibleCount(sensors, cap) ==
    Cardinality({i \in DOMAIN sensors : Admissible(sensors[i].dist, cap)})

\* C4: after an update call with fewer than 3 admissible sensors the filter
\* is exactly the prediction passed in: x_est = x_pred, P_est = P_pred, and
\* nothing else (the cap) has changed.
C4_ShortfallCommitsPrediction ==
    (upd.branch # "none" /\ AdmissibleCount(args.sensors, args.max_dist) < 3) =>
        ekf = [x_est |-> args.x_pred, P_est |-> args.P_pred, max_dist |-> args.max_dist]

\* an update was called after predict with four sensors of which two are
\* admissible
C4_Witness ==
    /\ upd.branch = "shortfall"
    /\ args.predicted
    /\ Len(args.sensors) = 4
    /\ AdmissibleCount(args.sensors, args.max_dist) = 2

\* C5: after an update call, a sensor has a row iff its range is admissible;
\* the number of rows (and of stacked measurements) is the number of
\* admissible sensors; the measurement update is attempted iff that number
\* is at least 3.
C5_RowsAreAdmissibleSensors ==
    upd.branch # "none" =>
        LET n == AdmissibleCount(args.sensors, args.max_dist)
        IN /\ \A i \in DOMAIN args.sensors :
                (\E r \in DOMAIN upd.rows : upd.rows[r] = args.sensors[i])
                    <=> Admissible(args.sensors[i].dist, args.max_dist)
           /\ Len(upd.rows) = n
           /\ Len(upd.z) = n
           /\ (upd.branch \in {"kalman", "singular"}) <=> (n >= 3)

\* the example: cap 150, ranges 100, 120, 140, 300; the update went ahead
\* with three rows
C5_Witness ==
    /\ args.max_dist = Some(Num(150))
    /\ Len(args.sensors) = 4
    /\ [i \in 1..4 |-> args.sensors[i].dist] = <<Num(100), Num(120), Num(140), Num(300)>>
    /\ upd.branch = "kalman"
    /\ upd.z = <<Num(100), Num(120), Num(140)>>

\* a snapshot has a detection: a report with is_target_source = true
HasDetection(snap) == \E k \in DOMAIN snap : snap[k].drone = TRUE

\* C6: a tick whose post-eviction snapshot has no detection leaves the
\* filter unchanged, makes no update call and sends nothing; and the
\* snapshot the gate reads holds no report of age 250 ms or more.
C6_NoDetectionNoEstimate ==
    /\ [][(GateStep /\ ~HasDetection(snapshot)) =>
            (ekf' = ekf /\ upd' = upd /\ sent' = sent)]_vars
    /\ [](fpc = "gate" => \A k \in DOMAIN snapshot : now - snapshot[k].updated < 250)

\* a tick is at the gate with three reports and no detection
C6_Witness ==
    /\ fpc = "gate"
    /\ Cardinality(DOMAIN snapshot) >= 3
    /\ ~HasDetection(snapshot)

\* C7: a tick runs predict and update and sends iff its snapshot has a
\* detection and at least 3 entries; then it sends exactly one message, built
\* from the state after the update; otherwise the filter is unchanged and
\* nothing is sent.
C7_GateIffDetectionAndThree ==
    [][GateStep =>
        IF HasDetection(snapshot) /\ Cardinality(DOMAIN snapshot) >= 3
        THEN /\ ekf' # ekf
             /\ upd'.branch # "none"
             /\ Len(sent') = Len(sent) + 1
             /\ SubSeq(sent', 1, Len(sent)) = sent
             /\ sent'[Len(sent')].text =
                    FormatEstimate(enu_to_lle(ref_lle.val, EnuOf(ekf'.x_est)))
        ELSE ekf' = ekf /\ sent' = sent]_vars

\* two ticks have passed the gate and each has sent one message
C7_Witness ==
    /\ Len(sent) = 2
    /\ sent[1].tick = 1
    /\ sent[2].tick = 2

\* C8: a malformed message does not terminate the handler: no handler whose
\* connection is open has stopped.
C8_MalformedKeepsHandler ==
    \A h \in Conns : conn[h] = "open" => hpc[h] # "panicked"

\* C9: a read error terminates the handler: a handler whose read returned
\* Err is not reading again.
C9_ReadErrorEndsHandler ==
    \A h \in Conns : conn[h] = "reset" => hpc[h] # "read"

\* C10: after a send on an outbound stream has failed, no later estimate is
\* sent on that stream.
C10_NoSendOnFailedStream ==
    \A i, j \in DOMAIN sent :
        (i < j /\ ~sent[i].ok) => sent[j].sock # sent[i].sock

\* C11: fusion ticks keep occurring whatever the state of the outbound
\* connection, so stale entries get evicted: whenever a sleep of the fusion
\* thread ends (the only steps at which its clock advances) and the registry
\* holds a report that is by then 250 ms old or older, the thread starts a
\* tick, also after a connect that failed.
C11_WakeOverStaleStartsATick ==
    [][(now' # now /\ \E k \in DOMAIN modules : now' - modules[k].updated >= 250)
            => (ticks' = ticks + 1 /\ fpc' = "lock")]_vars

\* C12: estimates are not buffered: the send calls are made in ticks that
\* strictly increase (at most one per tick) and no estimate is handed to the
\* stream twice, also after a send that failed.
C12_EachEstimateSentOnce ==
    \A i, j \in DOMAIN sent :
        i < j => (sent[i].tick < sent[j].tick /\ sent[i].text # sent[j].text)

\* the send of one tick failed and a later tick has sent its own estimate
C12_Witness ==
    /\ Len(sent) = 2
    /\ ~sent[1].ok
    /\ fpc = "sleep"

\* the step in which handler h completes its insert
InsertStep(h) == hpc[h] = "insert" /\ hpc'[h] = "read"

\* C13: the registry holds one report per identity and insertion replaces:
\* a completed insert leaves under its identity the report just received,
\* stamped with the instant of the insert, and leaves the other identities
\* alone; no other step changes or adds a report (eviction only removes), so
\* the stored report is that of the last completed insert; the snapshot is
\* the registry as it is at the instant of the clone and later inserts do
\* not alter it.
C13_InsertReplacesAndSnapshotIsACopy ==
    [][/\ \A h \in Conns : InsertStep(h) =>
            /\ DOMAIN modules' = DOMAIN modules \cup {htuple[h].mac}
            /\ modules'[htuple[h].mac] =
                    [lat |-> htuple[h].lat, lon |-> htuple[h].lon,
                     drone |-> htuple[h].drone, dist |-> htuple[h].dist,
                     updated |-> now]
            /\ \A k \in DOMAIN modules \ {htuple[h].mac} : modules'[k] = modules[k]
       /\ (\A h \in Conns : ~InsertStep(h)) =>
            \A k \in DOMAIN modules' : k \in DOMAIN modules /\ modules'[k] = modules[k]
       /\ EvictStep => snapshot' = modules'
       /\ (fpc = "gate" /\ fpc' = "gate") => snapshot' = snapshot]_vars

\* a tick holds its snapshot while an insert made after the clone has
\* replaced the report of an identity that the snapshot contains
C13_Witness ==
    /\ fpc = "gate"
    /\ \E k \in DOMAIN modules \cap DOMAIN snapshot :
        /\ modules[k] # snapshot[k]
        /\ modules[k].updated >= snapshot[k].updated

\* the threads that are inside the critical section of the registry Mutex:
\* the fusion thread between lock() and drop(lock), a handler between lock()
\* and the end of its insert statement
InCritical ==
    (IF fpc = "evict" THEN {"fusion"} ELSE {})
        \cup {h \in Conns : hpc[h] = "insert"}

\* C14: the fusion thread holds the registry lock exactly while it is at the
\* reference, eviction and clone step; at every other position (gating,
\* projection, predict, update, send, the sleeps, connecting) the lock is not
\* held by it, so it is free or held by a handler; a handler holds it exactly
\* while it is at its insert; and at most one thread is inside the critical
\* section
C14_LockOnlyAroundEvictAndClone ==
    /\ lock = "fusion" <=> fpc = "evict"
    /\ \A h \in Conns : lock = h <=> hpc[h] = "insert"
    /\ Cardinality(InCritical) <= 1
    /\ lock = "free" <=> InCritical = {}

\* a handler holds the lock for its insert while the fusion thread, having
\* released it, is about to gate its snapshot
C14_Witness == fpc = "gate" /\ snapshot # << >> /\ \E h \in Conns : lock = h

\* C15: the filter is the one built by Ekf::new(0.0, 0.0, None) until the
\* first update call, and its state changes only in a step of the fusion
\* thread that passes the gate and calls update: no insert, eviction, skipped
\* tick, connect attempt or sleep changes x_est or P_est, and max_dist never
\* changes
C15_FilterChangedOnlyByUpdate ==
    /\ [](upd = NoUpdate => ekf = Ekf_new(0, 0, None))
    /\ [][/\ ekf'.max_dist = ekf.max_dist
          /\ ekf' # ekf =>
                /\ GateStep
                /\ Detection(snapshot) /\ EnoughModules(snapshot)
                /\ upd'.branch # "none"
                /\ sent' # sent]_vars

\* the filter was updated in the first tick and has come unchanged through
\* the eviction of every report and a skipped second tick
C15_Witness ==
    /\ ekf # Ekf_new(0, 0, None)
    /\ upd.branch = "kalman"
    /\ ticks = 2 /\ fpc = "sleep"
    /\ Len(sent) = 1 /\ sent[1].tick = 1
    /\ modules = << >>

\* C16: for a sensor given at ENU (sx, sy) the predicted range of update is
\* the Euclidean distance between the predicted position (px, py) and
\* (sx, sy), and the Jacobian row is [(px - sx)/h, (py - sy)/h, 0, 0]; so
\* when every sensor reports its true range to the point at which the
\* prediction stands, every innovation is zero
C16_RangeToTheGivenSensorPosition ==
    upd.branch = "rows" =>
        \A i \in DOMAIN upd.rows :
            LET sx == args.sensors[i].enu.east.v
                sy == args.sensors[i].enu.north.v
            IN /\ upd.rows[i].dist_pred_sq = RangeSq(args.px, args.py, sx, sy)
               /\ upd.rows[i].hx = args.px - sx
               /\ upd.rows[i].hy = args.py - sy
               /\ <<args.px, args.py>> = args.target
                    => upd.rows[i].dist_pred_sq = args.sensors[i].dist_sq

\* lla_to_enu(point, reference) for a report: the east and north of the
\* report's position in the frame of the reference, non-finite when the
\* reference is
OffsetFrom(ref, m) ==
    LET enu == lle_to_enu(ref, Lle(m.lat, m.lon))
    IN <<enu.east, enu.north>>

\* the reports of a snapshot that the filter of update admits
AdmittedReports(snap) == {k \in DOMAIN snap : Admitted(ekf, [dist |-> snap[k].dist])}

C18_SingularCommitsPrediction ==
    upd.branch = "singular" =>
        /\ AdmissibleCount(args.sensors, args.max_dist) >= 3
        /\ ekf = [x_est |-> args.x_pred, P_est |-> args.P_pred, max_dist |-> args.max_dist]

\* an update was called after predict with four sensors, three of them
\* admissible, and the inversion failed
C18_Witness ==
    /\ upd.branch = "singular"
    /\ args.predicted
    /\ Len(args.sensors) = 4
    /\ AdmissibleCount(args.sensors, args.max_dist) = 3

\* every sensor of the call has a finite position
FinitePositions ==
    \A i \in DOMAIN args.sensors :
        is_finite(args.sensors[i].enu.east) /\ is_finite(args.sensors[i].enu.north)

\* C19: after an update call with finite x_pred and P_pred and sensors at
\* finite positions, whatever the ranges of the sensors, the stored x_est is
\* either exactly the prediction or a Kalman update that is finite
C19_StoredStateStaysFinite ==
    (upd.branch # "none" /\ FinitePositions) =>
        \/ ekf.x_est = args.x_pred /\ ekf.P_est = args.P_pred
        \/ /\ ekf.x_est = KalmanX(ekf.x_est.step)
           /\ KalmanXFinite(ekf.x_est.step)

\* C20: a predict call leaves the filter as it was and returns
\* (F(dt) * x_est, F(dt) * P_est * F(dt)^T + Q(dt)); a second predict call
\* before the update returns what the first returned, so it changes nothing;
\* and the filter changes only in an update call
C20_PredictIsPure ==
    [][/\ upd' = upd =>
            /\ ekf' = ekf
            /\ ~args.predicted
            /\ args'.x_pred = Mul(F(PREDICT_DT), ekf.x_est)
            /\ args'.P_pred = Add(Mul(Mul(F(PREDICT_DT), ekf.P_est),
                                      transpose(F(PREDICT_DT))), Q(PREDICT_DT))
       /\ ekf' # ekf => upd.branch = "none" /\ upd'.branch # "none"]_vars

\* predict has been called on the initial filter of a call with three
\* sensors, and the update has not run yet
C20_Witness ==
    /\ args.predicted
    /\ upd.branch = "none"
    /\ Len(args.sensors) = 3
    /\ ekf = Ekf_new(0, 0, args.max_dist)
    /\ args.x_pred # DrawnXPred

\* one cycle has run on the filter as built: predict(dt), then an update
\* with exactly two sensors
ShortfallAfterPredict ==
    /\ args.cycles = 1
    /\ upd.branch = "shortfall"

\* the filter as Ekf::new built it for this call
InitialEkf == Ekf_new(args.xy[1], args.xy[2], args.max_dist)

\* the stored state vector equals the initial one, entry by entry
StateVectorAsInitial ==
    \A i \in 1..4 : VecEntry(ekf.x_est, i) = VecEntry(InitialEkf.x_est, i)

\* C21 as stated: after predict(dt) and an update with only 2 sensors the
\* state vector equals the initial state and P_est equals the initial
\* covariance plus Q(dt).  P_est is a sum A + Q(dt); it equals P0 + Q(dt)
\* exactly when A equals P0 entry by entry.
C21_CovarianceGrowsByQ ==
    ShortfallAfterPredict =>
        /\ StateVectorAsInitial
        /\ ekf.P_est.op = "add"
        /\ ekf.P_est.r = Q(PREDICT_DT)
        /\ \A i \in 1..4, j \in 1..4 :
              Entry(ekf.P_est.l, i, j) = Entry(InitialEkf.P_est, i, j)

\* the entry (i, j) of a matrix term, 0 outside the matrix
EntryOrZero(m, i, j) == IF i <= 4 /\ j <= 4 THEN Entry(m, i, j) ELSE Rat(0, 1)

\* C21 as amended: after predict(dt) and an update with only 2 sensors the
\* state vector equals the initial state, and P_est is A + Q(dt) with
\* A = F(dt) * P0 * F(dt)^T, that is
\* A[i][j] = P0[i][j] + dt * (P0[i+2][j] + P0[i][j+2]) + dt^2 * P0[i+2][j+2]
C21_CovarianceIsPropagatedPlusQ ==
    ShortfallAfterPredict =>
        /\ StateVectorAsInitial
        /\ ekf.P_est.op = "add"
        /\ ekf.P_est.r = Q(PREDICT_DT)
        /\ \A i \in 1..4, j \in 1..4 :
              Entry(ekf.P_est.l, i, j) =
                RatAdd(Entry(InitialEkf.P_est, i, j),
                    RatAdd(RatMul(PREDICT_DT,
                                  RatAdd(EntryOrZero(InitialEkf.P_est, i + 2, j),
                                         EntryOrZero(InitialEkf.P_est, i, j + 2))),
                           RatMul(RatMul(PREDICT_DT, PREDICT_DT),
                                  EntryOrZero(InitialEkf.P_est, i + 2, j + 2))))

\* the sequence has run on a filter built away from the origin, with two
\* admissible sensors
C21_Witness ==
    /\ ShortfallAfterPredict
    /\ args.xy = <<100, -50>>
    /\ Len(upd.rows) = 2
    /\ args.P_pred = NoResult

\* a matrix term is symmetric: its entries above the diagonal equal those
\* below
Symmetric(m) ==
    \A i \in 1..4, j \in 1..4 : i < j => Entry(m, i, j) = Entry(m, j, i)

\* C22: when the covariance of the filter is symmetric, the covariance that
\* predict(dt) returns, F * P_est * F^T + Q(dt), is symmetric, for every
\* drawn dt > 0
C22_PredictedCovarianceSymmetric ==
    (args.P_pred # NoResult /\ Symmetric(ekf.P_est)) => Symmetric(args.P_pred)

\* predict was called with dt = 0.25 on a filter whose covariance is
\* symmetric and no longer diagonal
C22_Witness ==
    /\ args.P_pred # NoResult
    /\ args.dt = Rat(1, 4)
    /\ args.cycles = 2
    /\ Symmetric(ekf.P_est)
    /\ Entry(ekf.P_est, 1, 3) # Rat(0, 1)

\* a covariance term that is symmetric positive semi-definite by its
\* construction: a diagonal matrix without negative entries, a sum of two
\* such terms, or M * P * M^T for such a P
RECURSIVE PsdByConstruction(_)
PsdByConstruction(m) ==
    CASE m.op = "diag" -> \A i \in 1..4 : m.d[i][1] >= 0
      [] m.op = "add" -> PsdByConstruction(m.l) /\ PsdByConstruction(m.r)
      [] m.op = "mul" ->
            /\ m.r.op = "transpose"
            /\ m.l.op = "mul"
            /\ m.l.l = m.r.of
            /\ PsdByConstruction(m.l.r)
      [] OTHER -> FALSE

\* C23: the stored covariance is symmetric positive semi-definite in every
\* filter state: as built, after a predict-only update (the committed
\* prediction), and after the full update, where (I - K * H) * P_pred is
\* symmetric positive semi-definite when P_pred is and the result is finite
C23_CovarianceSymmetricPsd ==
    IF ekf.P_est.op = "(I - K * H) * P_pred"
    THEN /\ PsdByConstruction(ekf.P_est.step.P_pred)
         /\ KalmanPFinite(ekf.P_est.step)
    ELSE PsdByConstruction(ekf.P_est)

\* C24: at the end of a tick the thread sleeps for read_period minus the
\* time the tick has taken, and for zero when the tick has taken read_period
\* or more, never for a negative time; and the start of a tick is at least
\* read_period after the start of the tick before it
C24_SaturatingSleepKeepsCadence ==
    [][/\ (fpc = "gate" /\ fpc' = "sleep") =>
            /\ wake' >= now
            /\ wake' - now = (IF now - start >= read_period
                              THEN 0
                              ELSE read_period - (now - start))
       /\ (ticks >= 1 /\ ticks' = ticks + 1) => start' - start >= read_period]_vars

\* a tick that took 70 ms slept for zero and the next tick has started 70 ms
\* after it
C24_Witness ==
    /\ ticks = 2
    /\ fpc = "lock"
    /\ wake = start
    /\ start = CONNECTED_SLEEP_MS + 70

\* C25: whenever the snapshot of a tick is not empty the reference is set,
\* so a tick that passes the gate finds it set and the fusion thread never
\* panics on ref_lle.as_ref().unwrap()
C25_ReferenceSetBeforeProjection ==
    /\ snapshot # << >> => ref_lle.some
    /\ fpc # "panicked"

\* a tick stands at the gate with a detection and three snapshot entries,
\* about to project them
C25_Witness ==
    /\ fpc = "gate"
    /\ Detection(snapshot)
    /\ EnoughModules(snapshot)
    /\ ref_lle.some

\* C26: the registry guard is never left held.  A handler or the fusion
\* thread that has panicked does not hold it, a handler that spins on read
\* errors does not hold it, every holder releases it, and every thread that
\* waits in modules.lock() gets it
Holders == Conns \cup {"fusion"}

C26_LockNeverLeftHeld ==
    /\ [](\A h \in Conns :
            (hpc[h] = "panicked" \/ conn[h] = "reset") => lock # h)
    /\ [](fpc = "panicked" => lock # "fusion")
    /\ \A o \in Holders : (lock = o) ~> (lock # o)
    /\ (fpc = "lock") ~> (fpc = "evict")
    /\ \A h \in Conns : (hpc[h] = "lock") ~> (hpc[h] = "insert")

\* a handler waits in modules.lock() while the fusion thread holds the
\* guard, after the other handler has panicked
C26_Witness ==
    /\ lock = "fusion"
    /\ \E h \in Conns : hpc[h] = "lock"
    /\ \E h \in Conns : hpc[h] = "panicked" /\ conn[h] # "failed"

\* the computed point e is the point p
Emits(e, p) ==
    \/ e.k = "point" /\ e.p = p
    \/ /\ e.k = "ray"
       /\ Point_dist(e.from, p) = e.len
       /\ LET v == Point_diff(e.from, p)
          IN /\ v.x * e.d.y = v.y * e.d.x
             /\ v.y * e.d.z = v.z * e.d.y
             /\ v.x * e.d.z = v.z * e.d.x
             /\ v.x * e.d.x + v.y * e.d.y + v.z * e.d.z >= 0

\* C27: within 1 s of the previous point the emitted point lies on the ray
\* from the previous point toward the raw solution, at most max_dist away
\* from the previous point (from (100,100,0) toward (10,10,0) after 1 s it
\* is (70,70,0)); after more than 1 s, or without a previous point, it is
\* the raw solution
C27_MotionClampLimitsStep ==
    (args.emitted # NoResult) =>
        IF args.prev.some /\ args.time_diff <= CLAMP_WINDOW
        THEN (args.new_point # args.prev.val) =>
                /\ args.emitted.k = "ray"
                /\ args.emitted.from = args.prev.val
                /\ args.emitted.d = Point_diff(args.prev.val, args.new_point)
                /\ args.emitted.len.sq <= max_dist(args.time_diff).sq
                /\ (/\ args.prev.val = Point(100, 100, 0)
                    /\ args.new_point = Point(10, 10, 0)
                    /\ args.time_diff = TenthsPerSecond)
                   => Emits(args.emitted, Point(70, 70, 0))
        ELSE Emits(args.emitted, args.new_point)

====
